---- MODULE Spec2Model ----
(***************************************************************************)
(* A model of the Zendesk client of lib/zendesk.js: the constructor (the   *)
(* authorization value), the six operations createMethods builds for a     *)
(* resource, and the life of one HTTPS request inside _request (response   *)
(* data, response end, request error, the timeout timer and the completion *)
(* callback), together with querystring.parse / querystring.stringify and  *)
(* the base64 encoding the constructor uses.                               *)
(*                                                                         *)
(* JavaScript strings that the code takes apart (parameters, credentials)  *)
(* are sequences of one-character strings; JavaScript values carry their   *)
(* typeof in a "type" field.                                               *)
(***************************************************************************)
EXTENDS Integers, Sequences, FiniteSets, TLC

\* ------------------------------------------------------------------ bounds

\* Calls the caller may have in flight at the same time.
NumCalls == 2
\* Data chunks one response delivers at most.
MaxChunks == 3
\* Longest already-encoded query string a caller passes.
MaxLen == 3

\* ------------------------------------------------------- program constants

DEFAULT_TIMEOUT == 30000
API_PREFIX == "/api/v2"

\* ------------------------------------------------------- JavaScript values

Undef == [type |-> "undefined"]
Null == [type |-> "null"]
Str(s) == [type |-> "string", val |-> s]
Bool(b) == [type |-> "boolean", val |-> b]
Arr(a) == [type |-> "array", val |-> a]
\* A Buffer of received chunks.
Buf(b) == [type |-> "buffer", val |-> b]
\* An object is the sequence of its own enumerable entries, in insertion order.
Obj(entries) == [type |-> "object", val |-> entries]
Entry(k, v) == [key |-> k, val |-> v]

typeof(x) == IF x.type \in {"null", "array"} THEN "object" ELSE x.type

\* !x of JavaScript, for the values the constructor is given.
Falsy(x) ==
    \/ x.type \in {"undefined", "null"}
    \/ x.type = "string" /\ x.val = <<>>
    \/ x.type = "boolean" /\ ~x.val

RECURSIVE Flatten(_)
Flatten(ss) == IF ss = <<>> THEN <<>> ELSE Head(ss) \o Flatten(Tail(ss))

RECURSIVE Join(_, _)
Join(ss, sep) ==
    IF ss = <<>> THEN <<>>
    ELSE IF Len(ss) = 1 THEN ss[1]
    ELSE ss[1] \o sep \o Join(Tail(ss), sep)

Range(s) == {s[i] : i \in 1..Len(s)}

HasKey(entries, k) == \E i \in 1..Len(entries) : entries[i].key = k

\* obj[k] = v: an existing key keeps its place, a new key goes last.
SetKey(entries, k, v) ==
    IF HasKey(entries, k)
    THEN [i \in 1..Len(entries) |->
            IF entries[i].key = k THEN Entry(k, v) ELSE entries[i]]
    ELSE Append(entries, Entry(k, v))

\* obj[k], undefined for a key the object does not have.
GetKey(entries, k) ==
    IF HasKey(entries, k)
    THEN (CHOOSE e \in Range(entries) : e.key = k).val
    ELSE Undef

\* The decimal digits of a small array index, as a string.
IndexKey(i) == <<CASE i = 0 -> "0" [] i = 1 -> "1" [] i = 2 -> "2"
                   [] i = 3 -> "3" [] i = 4 -> "4" [] OTHER -> "5">>

\* for (key in x): the entries a for-in loop visits.
RECURSIVE StringEntries(_, _)
StringEntries(s, i) ==
    IF i > Len(s) THEN <<>>
    ELSE <<Entry(IndexKey(i - 1), Str(<<s[i]>>))>> \o StringEntries(s, i + 1)

ForIn(x) ==
    CASE x.type = "object" -> x.val
      [] x.type = "string" -> StringEntries(x.val, 1)
      [] OTHER -> <<>>

RECURSIVE SetAll(_, _)
SetAll(entries, from) ==
    IF from = <<>> THEN entries
    ELSE SetAll(SetKey(entries, Head(from).key, Head(from).val), Tail(from))

assign(object, from) == Obj(SetAll(SetAll(<<>>, ForIn(object)), ForIn(from)))

stringifyArray(a) == IF a.type = "array" THEN Str(Join(a.val, <<",">>)) ELSE a

\* ------------------------------------------------------------ querystring

\* querystring.escape: percent-encodes what is not unreserved.
QsEscapeChar(ch) ==
    CASE ch = "=" -> <<"%", "3", "D">>
      [] ch = "&" -> <<"%", "2", "6">>
      [] ch = "," -> <<"%", "2", "C">>
      [] ch = "/" -> <<"%", "2", "F">>
      [] OTHER -> <<ch>>

QsEscape(s) == Flatten([i \in 1..Len(s) |-> QsEscapeChar(s[i])])

QsPrimitive(v) == IF v.type = "string" THEN v.val ELSE <<>>

QsPair(e) ==
    IF e.val.type = "array"
    THEN Join([i \in 1..Len(e.val.val) |->
                 QsEscape(e.key) \o <<"=">> \o QsEscape(e.val.val[i])], <<"&">>)
    ELSE QsEscape(e.key) \o <<"=">> \o QsEscape(QsPrimitive(e.val))

QsStringify(obj) ==
    IF obj.type = "object"
    THEN Join([i \in 1..Len(obj.val) |-> QsPair(obj.val[i])], <<"&">>)
    ELSE <<>>

\* The pieces of s between occurrences of the character sep.
RECURSIVE Split(_, _)
Split(s, sep) ==
    IF \A i \in 1..Len(s) : s[i] # sep THEN <<s>>
    ELSE LET p == CHOOSE i \in 1..Len(s) :
                     s[i] = sep /\ \A j \in 1..(i - 1) : s[j] # sep
         IN  <<SubSeq(s, 1, p - 1)>> \o Split(SubSeq(s, p + 1, Len(s)), sep)

\* One "key=value" piece: split at the first "=", a piece without "=" is a
\* key with the empty value.
QsKeyOf(seg) ==
    IF \A i \in 1..Len(seg) : seg[i] # "=" THEN seg
    ELSE Head(Split(seg, "="))

QsValOf(seg) ==
    IF \A i \in 1..Len(seg) : seg[i] # "=" THEN <<>>
    ELSE SubSeq(seg, Len(QsKeyOf(seg)) + 2, Len(seg))

\* A repeated key collects its values in an array.
QsAdd(entries, k, v) ==
    IF ~HasKey(entries, k) THEN Append(entries, Entry(k, Str(v)))
    ELSE LET old == GetKey(entries, k)
         IN  IF old.type = "array"
             THEN SetKey(entries, k, Arr(Append(old.val, v)))
             ELSE SetKey(entries, k, Arr(<<old.val, v>>))

RECURSIVE QsCollect(_, _)
QsCollect(segs, entries) ==
    IF segs = <<>> THEN entries
    ELSE IF Head(segs) = <<>> THEN QsCollect(Tail(segs), entries)
    ELSE QsCollect(Tail(segs),
                   QsAdd(entries, QsKeyOf(Head(segs)), QsValOf(Head(segs))))

QsParse(s) == Obj(QsCollect(Split(s, "&"), <<>>))

\* ----------------------------------------------------------------- base64

\* The character codes of the characters credentials are made of.
CredChars == {"a", "b", "@", "/", ":", "t", "o", "k", "e", "n", "x", "y"}

CharCode(ch) ==
    CASE ch = "a" -> 97 [] ch = "b" -> 98 [] ch = "@" -> 64 [] ch = "/" -> 47
      [] ch = ":" -> 58 [] ch = "t" -> 116 [] ch = "o" -> 111 [] ch = "k" -> 107
      [] ch = "e" -> 101 [] ch = "n" -> 110 [] ch = "x" -> 120 [] ch = "y" -> 121

B64Alphabet ==
    << "A", "B", "C", "D", "E", "F", "G", "H", "I", "J", "K", "L", "M",
       "N", "O", "P", "Q", "R", "S", "T", "U", "V", "W", "X", "Y", "Z",
       "a", "b", "c", "d", "e", "f", "g", "h", "i", "j", "k", "l", "m",
       "n", "o", "p", "q", "r", "s", "t", "u", "v", "w", "x", "y", "z",
       "0", "1", "2", "3", "4", "5", "6", "7", "8", "9", "+", "/" >>

B64Char(sextet) == B64Alphabet[sextet + 1]

\* Buffer.from(s).toString('base64') over the bytes of s.
RECURSIVE Base64Bytes(_)
Base64Bytes(bs) ==
    IF bs = <<>> THEN <<>>
    ELSE IF Len(bs) = 1
    THEN <<B64Char(bs[1] \div 4), B64Char((bs[1] % 4) * 16), "=", "=">>
    ELSE IF Len(bs) = 2
    THEN <<B64Char(bs[1] \div 4),
           B64Char((bs[1] % 4) * 16 + bs[2] \div 16),
           B64Char((bs[2] % 16) * 4), "=">>
    ELSE <<B64Char(bs[1] \div 4),
           B64Char((bs[1] % 4) * 16 + bs[2] \div 16),
           B64Char((bs[2] % 16) * 4 + bs[3] \div 64),
           B64Char(bs[3] % 64)>> \o Base64Bytes(SubSeq(bs, 4, Len(bs)))

Base64(s) == Base64Bytes([i \in 1..Len(s) |-> CharCode(s[i])])

\* -------------------------------------------------------------- URL, JSON

\* URL.parse of "<protocol>//<host>".
UrlParse(u) ==
    LET p == CHOOSE i \in 1..Len(u) : u[i] = ":" /\ \A j \in 1..(i - 1) : u[j] # ":"
    IN  [protocol |-> SubSeq(u, 1, p), host |-> SubSeq(u, p + 3, Len(u)),
         hostname |-> SubSeq(u, p + 3, Len(u)), port |-> Null]

\* JSON.stringify of a value built from strings and objects; an entry whose
\* value is undefined is left out.
RECURSIVE JsonText(_)
JsonText(v) ==
    CASE v.type = "string" -> <<"\"">> \o v.val \o <<"\"">>
      [] v.type = "null" -> <<"null">>
      [] v.type = "object" ->
           LET kept == SelectSeq(v.val, LAMBDA e : e.val.type # "undefined")
           IN  <<"{">>
               \o Join([i \in 1..Len(kept) |->
                          <<"\"">> \o kept[i].key \o <<"\"", ":">>
                          \o JsonText(kept[i].val)], <<",">>)
               \o <<"}">>
      [] OTHER -> <<>>

\* The response body arrives as a sequence of JSON tokens, one per chunk.
LBrace == [t |-> "{", key |-> <<>>, val |-> "-"]
RBrace == [t |-> "}", key |-> <<>>, val |-> "-"]
NullTok == [t |-> "null", key |-> <<>>, val |-> "-"]
Member(k, v) == [t |-> "member", key |-> k, val |-> v]

\* A decoded member value.
Val(v) == [type |-> "value", val |-> v]

RECURSIVE MemberEntries(_)
MemberEntries(toks) ==
    IF toks = <<>> THEN <<>>
    ELSE SetAll(<<Entry(Head(toks).key, Val(Head(toks).val))>>,
                MemberEntries(Tail(toks)))

Error(name, message, code, stack) ==
    [type |-> "error", name |-> name, message |-> message,
     code |-> code, stack |-> stack]

\* JSON.parse(body.toString()): the decoded value, or the SyntaxError thrown.
JsonParse(toks) ==
    IF toks = <<NullTok>> THEN [ok |-> TRUE, val |-> Null]
    ELSE IF /\ Len(toks) >= 2
            /\ toks[1] = LBrace
            /\ toks[Len(toks)] = RBrace
            /\ \A i \in 2..(Len(toks) - 1) : toks[i].t = "member"
    THEN [ok |-> TRUE,
          val |-> Obj(MemberEntries(SubSeq(toks, 2, Len(toks) - 1)))]
    ELSE [ok |-> FALSE,
          val |-> Error("SyntaxError", "Unexpected token in JSON", "none",
                        "JSON.parse")]

\* ------------------------------------------------------------ constructor

TokenSep == <<"/", "t", "o", "k", "e", "n", ":">>

Threw(message) == [state |-> "threw", message |-> message]

Ready(base_url, authorization) ==
    [state |-> "ready", base_url |-> base_url, authorization |-> authorization]

\* The constructor with the plain Basic scheme "email:token" in place of
\* Zendesk's "email/token:token".
ZendeskPlainBasic(options) ==
    IF Falsy(options.url) THEN Threw("You must specify Zendesk URL")
    ELSE IF Falsy(options.token)
    THEN Threw("You must specify Zendesk access token")
    ELSE IF Falsy(options.oauth)
    THEN IF Falsy(options.email)
         THEN Threw("You must specify Zendesk email")
         ELSE Ready(UrlParse(options.url.val),
                    <<"Basic ">>
                    \o Base64(options.email.val \o <<":">> \o options.token.val))
    ELSE Ready(UrlParse(options.url.val), <<"Bearer ">> \o options.token.val)

\* new Zendesk(options): the client, or the Error the constructor throws.
Zendesk(options) ==
    IF Falsy(options.url) THEN Threw("You must specify Zendesk URL")
    ELSE IF Falsy(options.token)
    THEN Threw("You must specify Zendesk access token")
    ELSE IF Falsy(options.oauth)
    THEN IF Falsy(options.email)
         THEN Threw("You must specify Zendesk email")
         ELSE Ready(UrlParse(options.url.val),
                    <<"Basic ">>
                    \o Base64(options.email.val \o TokenSep \o options.token.val))
    ELSE Ready(UrlParse(options.url.val), <<"Bearer ">> \o options.token.val)

\* ---------------------------------------------------- building a request

\* The options _request hands to https.request, and the body it writes.
RequestOptions(zd, method, path, params) ==
    LET hasBody == method \in {"POST", "PUT"}
        request_body ==
            IF hasBody
            THEN Str(JsonText(IF Falsy(params) THEN Obj(<<>>) ELSE params))
            ELSE Undef
        base == ("Authorization" :> zd.authorization)
                @@ ("Accept" :> <<"application/json;q=0.9,text/plain">>)
    IN  [protocol |-> zd.base_url.protocol,
         host |-> zd.base_url.host,
         hostname |-> zd.base_url.hostname,
         port |-> zd.base_url.port,
         path |-> <<API_PREFIX>> \o path
                  \o (IF method = "GET" /\ typeof(params) = "object"
                      THEN <<"?">> \o QsStringify(params) ELSE <<>>),
         method |-> method,
         headers |-> IF hasBody
                     THEN base @@ ("Content-Type" :> <<"application/json">>)
                               @@ ("Content-Length" :> <<Len(request_body.val)>>)
                     ELSE base,
         body |-> request_body]

\* The arguments of one _request_promisified call.
Req(method, path, params) == [method |-> method, path |-> path, params |-> params]

_parse_params(params) ==
    IF typeof(params) = "string" THEN QsParse(params.val) ELSE params

_list(path, params) == Req("GET", path, _parse_params(params))
_show(path, params) == Req("GET", path, params)
_create(path, params) == Req("POST", path, params)
_update(path, params) == Req("PUT", path, params)
_delete(path, object_id) == Req("DELETE", path, Null)

\* ---------------------------------------------------------- createMethods

\* A method of createMethods(singular, plural)(prefix): the request it makes
\* and the envelope field accessor() extracts (Undef: no accessor).
Plan(req, accessor) == [req |-> req, accessor |-> accessor]

list(singular, plural, prefix, params) ==
    Plan(_list(prefix \o <<"/">> \o plural \o <<".json">>, params), Str(plural))

show(singular, plural, prefix, id, params) ==
    Plan(_show(prefix \o <<"/">> \o plural \o <<"/">> \o id \o <<".json">>, params),
         Str(singular))

showMany(singular, plural, prefix, ids, params) ==
    Plan(_list(prefix \o <<"/">> \o plural \o <<"/show_many.json">>,
               assign(params, Obj(<<Entry(<<"i", "d", "s">>, stringifyArray(ids))>>))),
         Str(plural))

create(singular, plural, prefix, params) ==
    Plan(_create(prefix \o <<"/">> \o plural \o <<".json">>,
                 Obj(<<Entry(singular, params)>>)),
         Str(singular))

update(singular, plural, prefix, id, params) ==
    Plan(_update(prefix \o <<"/">> \o plural \o <<"/">> \o id \o <<".json">>,
                 Obj(<<Entry(singular, params)>>)),
         Str(singular))

delete(singular, plural, prefix, id) ==
    Plan(_delete(prefix \o <<"/">> \o plural \o <<"/">> \o id \o <<".json">>, Str(id)),
         Undef)

\* this.tickets = createMethods('ticket', 'tickets')('')
ticket == <<"t", "i", "c", "k", "e", "t">>
tickets == <<"t", "i", "c", "k", "e", "t", "s">>

\* ------------------------------------------------------------- promises

Pending == [state |-> "pending"]
Fulfilled(v) == [state |-> "fulfilled", value |-> v]
Rejected(e) == [state |-> "rejected", value |-> e]

\* Promise.fromCallback: cb(err, result) settles the promise.
FromCallback(err, result) ==
    IF err.type # "null" THEN Rejected(err) ELSE Fulfilled(result)

\* new Error(message) made inside accessor().
NewError(message) == Error("Error", message, "none", "accessor")

\* accessor(promise, path): result[path], any failure as new Error(err.message).
accessor(promise, path) ==
    IF promise.state = "fulfilled"
    THEN IF promise.value.type = "null"
         THEN Rejected(NewError("Cannot read properties of null"))
         ELSE Fulfilled(GetKey(promise.value.val, path))
    ELSE Rejected(NewError(promise.value.message))

\* What the caller's promise settles to once the callback has been called.
Settle(plan, err, result) ==
    IF plan.accessor.type = "undefined"
    THEN FromCallback(err, result)
    ELSE accessor(FromCallback(err, result), plan.accessor.val)

\* ---------------------------------------------------------------- state

VARIABLES
    options,   \* what the constructor was given
    client,    \* the constructed client, or the error the constructor threw
    calls,     \* per call: the operation invoked and its plan
    sent,      \* per call: the requests handed to https.request, in order
    phase,     \* per call: where the HTTPS request is
    response,  \* per call: status line of the response, once received
    body,      \* per call: the accumulated response body (null before data)
    timer,     \* per call: the timeout timer of _request
    cbCalls,   \* per call: the invocations of the completion callback
    outcome,   \* per call: the promise the operation returned
    late,      \* per call: the timeout has elapsed since the request started
    log        \* per call: the handlers that ran, in order

vars == <<options, client, calls, sent, phase, response, body, timer,
          cbCalls, outcome, late, log>>

CallIds == 1..NumCalls

Idle == [op |-> "idle"]
NoResponse == [statusCode |-> 0, statusMessage |-> "-"]
NoOptions == [url |-> Undef, token |-> Undef, email |-> Undef, oauth |-> Undef]

Init ==
    /\ options = NoOptions
    /\ client = [state |-> "none"]
    /\ calls = [c \in CallIds |-> Idle]
    /\ sent = [c \in CallIds |-> <<>>]
    /\ phase = [c \in CallIds |-> "idle"]
    /\ response = [c \in CallIds |-> NoResponse]
    /\ body = [c \in CallIds |-> Null]
    /\ timer = [c \in CallIds |-> "unset"]
    /\ cbCalls = [c \in CallIds |-> <<>>]
    /\ outcome = [c \in CallIds |-> Pending]
    /\ late = [c \in CallIds |-> FALSE]
    /\ log = [c \in CallIds |-> <<>>]

\* --------------------------------------------------------------- actions

Construct(o) ==
    /\ client.state = "none"
    /\ options' = o
    /\ client' = Zendesk(o)
    /\ UNCHANGED <<calls, sent, phase, response, body, timer, cbCalls,
                   outcome, late, log>>

\* _request up to its last statement: the request is built, handed to
\* https.request and ended, and the timeout timer is set.
_request(c, req) ==
    /\ sent' = [sent EXCEPT ![c] =
                  Append(@, RequestOptions(client, req.method, req.path, req.params))]
    /\ phase' = [phase EXCEPT ![c] = "waiting"]
    /\ body' = [body EXCEPT ![c] = Null]
    /\ timer' = [timer EXCEPT ![c] = "armed"]

\* The caller invokes one method of this.tickets.
Invoke(c, op, params, plan) ==
    /\ client.state = "ready"
    /\ calls[c].op = "idle"
    /\ calls' = [calls EXCEPT ![c] = [op |-> op, params |-> params, plan |-> plan]]
    /\ _request(c, plan.req)
    /\ UNCHANGED <<options, client, response, cbCalls, outcome, late, log>>

\* cb(err, result): only the first invocation settles the promise.
Callback(c, err, result) ==
    /\ cbCalls' = [cbCalls EXCEPT ![c] = Append(@, [err |-> err, result |-> result])]
    /\ outcome' = [outcome EXCEPT ![c] =
                     IF @.state = "pending"
                     THEN Settle(calls[c].plan, err, result) ELSE @]

clearTimeout(t) == IF t = "armed" THEN "cleared" ELSE t

\* request.on('response')
OnResponse(c, st) ==
    /\ phase[c] = "waiting"
    /\ phase' = [phase EXCEPT ![c] = "response"]
    /\ response' = [response EXCEPT ![c] = st]
    /\ UNCHANGED <<options, client, calls, sent, body, timer, cbCalls,
                   outcome, late, log>>

\* response.on('data')
OnData(c, data) ==
    /\ phase[c] = "response"
    /\ Len(IF body[c].type = "null" THEN <<>> ELSE body[c].val) < MaxChunks
    /\ timer' = [timer EXCEPT ![c] = clearTimeout(@)]
    /\ body' = [body EXCEPT ![c] =
                  IF @.type = "null" THEN Buf(<<data>>) ELSE Buf(Append(@.val, data))]
    /\ log' = [log EXCEPT ![c] = Append(@, "data")]
    /\ UNCHANGED <<options, client, calls, sent, phase, response, cbCalls,
                   outcome, late>>

\* What the 'end' handler passes to the callback.
EndResult(res, b) ==
    IF b.type = "null"
    THEN [err |-> Error("Error", "Empty reply from Zendesk", "none", "_request"),
          result |-> Undef]
    ELSE IF res.statusCode >= 200 /\ res.statusCode < 300
    THEN IF JsonParse(b.val).ok
         THEN [err |-> Null, result |-> JsonParse(b.val).val]
         ELSE [err |-> JsonParse(b.val).val, result |-> Undef]
    ELSE [err |-> Error("Error", res.statusMessage, "none", "_request"),
          result |-> Undef]

\* The 'end' handler without its clearTimeout(timer).
OnEndKeepsTimer(c) ==
    /\ phase[c] = "response"
    /\ phase' = [phase EXCEPT ![c] = "ended"]
    /\ Callback(c, EndResult(response[c], body[c]).err,
                   EndResult(response[c], body[c]).result)
    /\ log' = [log EXCEPT ![c] = Append(@, "end")]
    /\ UNCHANGED <<options, client, calls, sent, response, body, late, timer>>

\* response.on('end')
OnEnd(c) ==
    /\ phase[c] = "response"
    /\ phase' = [phase EXCEPT ![c] = "ended"]
    /\ timer' = [timer EXCEPT ![c] = clearTimeout(@)]
    /\ Callback(c, EndResult(response[c], body[c]).err,
                   EndResult(response[c], body[c]).result)
    /\ log' = [log EXCEPT ![c] = Append(@, "end")]
    /\ UNCHANGED <<options, client, calls, sent, response, body, late>>

\* The handler of request.on('error'): error.stack = trace.stack is undefined.
ErrorHandler(c, err) ==
    /\ phase' = [phase EXCEPT ![c] = "failed"]
    /\ timer' = [timer EXCEPT ![c] = clearTimeout(@)]
    /\ Callback(c, [err EXCEPT !.stack = "undefined"], Undef)
    /\ log' = [log EXCEPT ![c] = Append(@, "error")]
    /\ UNCHANGED <<options, client, calls, sent, response, body, late>>

\* The connection fails while the request is outstanding.
OnError(c, err) ==
    /\ phase[c] \in {"waiting", "response"}
    /\ ErrorHandler(c, err)

\* request.abort() before any response makes the request emit 'error'
\* (socket hang up).
SocketHangUp == Error("Error", "socket hang up", "ECONNRESET", "http")

OnAbortError(c) ==
    /\ phase[c] = "aborted"
    /\ response[c] = NoResponse
    /\ ErrorHandler(c, SocketHangUp)

\* The setTimeout callback sending the request once more after the abort.
TimerFireRetry(c) ==
    /\ timer[c] = "armed"
    /\ timer' = [timer EXCEPT ![c] = "fired"]
    /\ phase' = [phase EXCEPT ![c] =
                   IF @ \in {"waiting", "response"} THEN "aborted" ELSE @]
    /\ sent' = [sent EXCEPT ![c] = Append(@, @[1])]
    /\ Callback(c, Error("Error", "Timeout", "none", "undefined"), Undef)
    /\ late' = [late EXCEPT ![c] = TRUE]
    /\ log' = [log EXCEPT ![c] = Append(@, "timeout")]
    /\ UNCHANGED <<options, client, calls, response, body>>

\* The setTimeout callback: abort the request, report 'Timeout'.
TimerFire(c) ==
    /\ timer[c] = "armed"
    /\ timer' = [timer EXCEPT ![c] = "fired"]
    /\ phase' = [phase EXCEPT ![c] =
                   IF @ \in {"waiting", "response"} THEN "aborted" ELSE @]
    /\ Callback(c, Error("Error", "Timeout", "none", "undefined"), Undef)
    /\ late' = [late EXCEPT ![c] = TRUE]
    /\ log' = [log EXCEPT ![c] = Append(@, "timeout")]
    /\ UNCHANGED <<options, client, calls, sent, response, body>>

\* options.timeout || DEFAULT_TIMEOUT milliseconds elapse on a request that
\* is still outstanding and has no timer to fire.
DeadlinePass(c) ==
    /\ phase[c] \in {"waiting", "response"}
    /\ timer[c] # "armed"
    /\ ~late[c]
    /\ late' = [late EXCEPT ![c] = TRUE]
    /\ UNCHANGED <<options, client, calls, sent, phase, response, body, timer,
                   cbCalls, outcome, log>>

\* ---------------------------------------------------------------- inputs

Url == <<"h", "t", "t", "p", "s", ":", "/", "/", "z">>

BasicOptions ==
    [url |-> Str(Url), token |-> Str(<<"x">>), email |-> Str(<<"a">>), oauth |-> Undef]

OAuthOptions ==
    [url |-> Str(Url), token |-> Str(<<"x">>), email |-> Undef, oauth |-> Bool(TRUE)]

AllOptions ==
    [url : {Undef, Str(<<>>), Str(Url)},
     token : {Undef, Str(<<>>), Str(<<"x">>), Str(<<"x", "y">>)},
     email : {Undef, Str(<<>>), Str(<<"a">>), Str(<<"a", "@", "b">>)},
     oauth : {Undef, Bool(FALSE), Bool(TRUE)}]

Statuses ==
    {[statusCode |-> 200, statusMessage |-> "OK"],
     [statusCode |-> 204, statusMessage |-> "No Content"],
     [statusCode |-> 404, statusMessage |-> "Not Found"]}

Tokens == {LBrace, RBrace, NullTok, Member(ticket, "A"), Member(tickets, "AB")}

ConnReset == Error("Error", "read ECONNRESET", "ECONNRESET", "net")

Id42 == <<"4", "2">>
Ids12 == Arr(<< <<"1">>, <<"2">> >>)
Attrs == Obj(<<Entry(<<"k">>, Str(<<"v">>))>>)

\* Already-encoded query strings of at most MaxLen characters.
QsAlphabet == {"k", "v", "=", "&"}
QueryStrings == UNION {[1..n -> QsAlphabet] : n \in 1..MaxLen}

\* What a caller passes as params: nothing, a query string, or a mapping.
ParamInputs ==
    {Undef} \cup {Str(q) : q \in QueryStrings} \cup {QsParse(q) : q \in QueryStrings}

\* The methods of this.tickets, as the caller invokes them.
CallList(c, params) ==
    Invoke(c, "list", params, list(ticket, tickets, <<>>, params))
CallShow(c, id, params) ==
    Invoke(c, "show", params, show(ticket, tickets, <<>>, id, params))
CallShowMany(c, ids, params) ==
    Invoke(c, "showMany", params, showMany(ticket, tickets, <<>>, ids, params))
CallCreate(c, params) ==
    Invoke(c, "create", params, create(ticket, tickets, <<>>, params))
CallUpdate(c, id, params) ==
    Invoke(c, "update", params, update(ticket, tickets, <<>>, id, params))
CallDelete(c, id) ==
    Invoke(c, "delete", Undef, delete(ticket, tickets, <<>>, id))

\* No other call has been made.
Alone(c) == \A d \in CallIds \ {c} : calls[d].op = "idle"

\* --------------------------------------------------------- specifications

\* One call at a time, every server answer.
Next ==
    \/ \E o \in {BasicOptions, OAuthOptions} : Construct(o)
    \/ \E c \in CallIds : Alone(c) /\ CallList(c, Undef)
    \/ \E c \in CallIds : Alone(c) /\ CallShow(c, Id42, Undef)
    \/ \E c \in CallIds : Alone(c) /\ CallShowMany(c, Ids12, Undef)
    \/ \E c \in CallIds : Alone(c) /\ CallCreate(c, Attrs)
    \/ \E c \in CallIds : Alone(c) /\ CallUpdate(c, Id42, Attrs)
    \/ \E c \in CallIds : Alone(c) /\ CallDelete(c, Id42)
    \/ \E c \in CallIds, st \in Statuses : OnResponse(c, st)
    \/ \E c \in CallIds, data \in Tokens : OnData(c, data)
    \/ \E c \in CallIds : OnEnd(c)
    \/ \E c \in CallIds : OnError(c, ConnReset)
    \/ \E c \in CallIds : OnAbortError(c)
    \/ \E c \in CallIds : TimerFire(c)
    \/ \E c \in CallIds : DeadlinePass(c)

Spec == Init /\ [][Next]_vars

\* Every other call made so far invoked the same operation.
SameOp(c, op) == \A d \in CallIds \ {c} : calls[d].op \in {"idle", op}

\* Calls of one operation in flight concurrently, every kind of outcome.
ConcNext ==
    \/ Construct(BasicOptions)
    \/ \E c \in CallIds : SameOp(c, "list") /\ CallList(c, Undef)
    \/ \E c \in CallIds : SameOp(c, "show") /\ CallShow(c, Id42, Undef)
    \/ \E c \in CallIds : SameOp(c, "showMany") /\ CallShowMany(c, Ids12, Undef)
    \/ \E c \in CallIds : SameOp(c, "create") /\ CallCreate(c, Attrs)
    \/ \E c \in CallIds : SameOp(c, "update") /\ CallUpdate(c, Id42, Attrs)
    \/ \E c \in CallIds : SameOp(c, "delete") /\ CallDelete(c, Id42)
    \/ \E c \in CallIds, st \in {s \in Statuses : s.statusCode # 204} :
          OnResponse(c, st)
    \/ \E c \in CallIds : OnData(c, NullTok)
    \/ \E c \in CallIds : OnEnd(c)
    \/ \E c \in CallIds : OnError(c, ConnReset)
    \/ \E c \in CallIds : OnAbortError(c)
    \/ \E c \in CallIds : TimerFire(c)

ConcSpec == Init /\ [][ConcNext]_vars

\* Every construction input, then operations on the client.
AuthNext ==
    \/ \E o \in AllOptions : Construct(o)
    \/ \E c \in CallIds : CallList(c, Undef)
    \/ \E c \in CallIds : CallShow(c, Id42, Undef)
    \/ \E c \in CallIds : CallShowMany(c, Ids12, Undef)
    \/ \E c \in CallIds : CallCreate(c, Attrs)
    \/ \E c \in CallIds : CallUpdate(c, Id42, Attrs)
    \/ \E c \in CallIds : CallDelete(c, Id42)
    \/ \E c \in CallIds : TimerFire(c)

AuthSpec == Init /\ [][AuthNext]_vars

\* The GET operations on every params input.
ParamNext ==
    \/ Construct(BasicOptions)
    \/ \E c \in CallIds, p \in ParamInputs : Alone(c) /\ CallList(c, p)
    \/ \E c \in CallIds, p \in ParamInputs : Alone(c) /\ CallShow(c, Id42, p)
    \/ \E c \in CallIds, p \in ParamInputs : Alone(c) /\ CallShowMany(c, Ids12, p)

ParamSpec == Init /\ [][ParamNext]_vars

\* ---------------------------------------------------------------- claims

Issued(c) == calls[c].op # "idle"
Completed(c) == phase[c] = "ended"
Is2xx(res) == res.statusCode >= 200 /\ res.statusCode < 300
Succeeded(c) == cbCalls[c] # <<>> /\ cbCalls[c][1].err.type = "null"

\* C1: once the timeout has elapsed on a request that saw neither 'end' nor
\* 'error', the request has been aborted by the timer and the call is
\* rejected with 'Timeout', whether or not data chunks had arrived.
C1_TimeoutAlwaysSettles ==
    \A c \in CallIds :
        late[c] =>
            /\ timer[c] = "fired"
            /\ phase[c] \in {"aborted", "failed"}
            /\ outcome[c].state = "rejected"
            /\ outcome[c].value.message = "Timeout"

\* C2: list, show, showMany, create and update resolve with the expected
\* field of a decoded 2xx envelope when it is present and reject when it is
\* absent.
C2_UnwrapOrShapeError ==
    \A c \in CallIds :
        ( /\ calls[c].op \in {"list", "show", "showMany", "create", "update"}
          /\ Succeeded(c)
          /\ cbCalls[c][1].result.type = "object" )
        => LET envelope == cbCalls[c][1].result.val
               field == calls[c].plan.accessor.val
           IN  IF HasKey(envelope, field)
               THEN outcome[c] = Fulfilled(GetKey(envelope, field))
               ELSE outcome[c].state = "rejected"

\* C3: a completed response with a status outside [200,300) rejects with
\* the status text as message, whatever its body (empty or not).
C3_StatusErrorMessage ==
    \A c \in CallIds :
        (Completed(c) /\ ~Is2xx(response[c]))
        => /\ outcome[c].state = "rejected"
           /\ outcome[c].value.message = response[c].statusMessage

\* C4: delete sends a DELETE without a body to {prefix}/{plural}/{id}.json
\* and resolves with the raw envelope on every 2xx response, the empty body
\* included.
C4_DeleteResolvesRaw ==
    \A c \in CallIds :
        calls[c].op = "delete"
        => /\ sent[c][1].method = "DELETE"
           /\ sent[c][1].body = Undef
           /\ sent[c][1].path
                = <<API_PREFIX, "/">> \o tickets \o <<"/">> \o Id42 \o <<".json">>
           /\ ( /\ Completed(c)
                /\ Is2xx(response[c])
                /\ (body[c].type = "null" \/ JsonParse(body[c].val).ok) )
              => /\ outcome[c].state = "fulfilled"
                 /\ body[c].type # "null"
                    => outcome[c].value = JsonParse(body[c].val).val

\* C5: every rejection an operation delivers is a plain Error made by the
\* factory layer that carries the message only, never the underlying error
\* object or its type.
C5_UniformRejection ==
    \A c \in CallIds :
        outcome[c].state = "rejected"
        => outcome[c].value = NewError(outcome[c].value.message)

\* C6: every call of an operation has issued exactly one HTTP request, in
\* every state of every interleaving of concurrent calls, whatever became
\* of the request.
C6_OneRequestPerCall ==
    \A c \in CallIds : Len(sent[c]) = IF Issued(c) THEN 1 ELSE 0

\* Two calls made, one timed out (abort and socket hang up included), the
\* other answered to the end.
C6_Witness ==
    \E c, d \in CallIds :
        /\ c # d
        /\ log[c] = <<"timeout", "error">>
        /\ Completed(d)
        /\ Len(sent[c]) = 1

\* Decoding base64, to read back what an authorization value encodes.
B64Index(ch) == CHOOSE i \in 0..63 : B64Alphabet[i + 1] = ch

RECURSIVE Base64DecodeBytes(_)
Base64DecodeBytes(cs) ==
    IF Len(cs) < 4 THEN <<>>
    ELSE LET b1 == B64Index(cs[1]) * 4 + B64Index(cs[2]) \div 16
         IN  IF cs[3] = "=" THEN <<b1>>
             ELSE LET b2 == (B64Index(cs[2]) % 16) * 16 + B64Index(cs[3]) \div 4
                  IN  IF cs[4] = "=" THEN <<b1, b2>>
                      ELSE <<b1, b2, (B64Index(cs[3]) % 4) * 64 + B64Index(cs[4])>>
                           \o Base64DecodeBytes(SubSeq(cs, 5, Len(cs)))

Base64Decode(cs) ==
    LET bs == Base64DecodeBytes(cs)
    IN  [i \in 1..Len(bs) |-> CHOOSE ch \in CredChars : CharCode(ch) = bs[i]]

\* The options the constructor must refuse: a missing (undefined or empty)
\* url or token, or a missing email without oauth.
Refused(o) == Falsy(o.url) \/ Falsy(o.token) \/ (Falsy(o.oauth) /\ Falsy(o.email))

\* The authorization value the options call for.
AuthorizationFor(auth, o) ==
    IF Falsy(o.oauth)
    THEN /\ Head(auth) = "Basic "
         /\ Len(Tail(auth)) % 4 = 0
         /\ Base64Decode(Tail(auth)) = o.email.val \o TokenSep \o o.token.val
    ELSE auth = <<"Bearer ">> \o o.token.val

\* C7: the constructor throws exactly on the refused options; otherwise the
\* authorization is 'Bearer <token>' with oauth and 'Basic ' followed by the
\* base64 of '<email>/token:<token>' without, and every request sent carries
\* that value.
C7_Authorization ==
    /\ client.state = "threw" <=> (client.state # "none" /\ Refused(options))
    /\ client.state = "threw" => \A c \in CallIds : ~Issued(c)
    /\ client.state = "ready" => AuthorizationFor(client.authorization, options)
    /\ \A c \in CallIds : \A i \in 1..Len(sent[c]) :
          AuthorizationFor(sent[c][i].headers["Authorization"], options)

\* A Basic client whose calls have all been made, one of them timed out.
C7_Witness ==
    /\ client.state = "ready"
    /\ Falsy(options.oauth)
    /\ options.email.val = <<"a", "@", "b">>
    /\ \A c \in CallIds : Issued(c)
    /\ \E c \in CallIds : log[c] = <<"timeout">>

\* The plan the operation of call c makes for the params p.
PlanFor(c, p) ==
    CASE calls[c].op = "list" -> list(ticket, tickets, <<>>, p)
      [] calls[c].op = "show" -> show(ticket, tickets, <<>>, Id42, p)
      [] calls[c].op = "showMany" -> showMany(ticket, tickets, <<>>, Ids12, p)

PathFor(c, p) ==
    RequestOptions(client, PlanFor(c, p).req.method, PlanFor(c, p).req.path,
                   PlanFor(c, p).req.params).path

\* C8: a GET operation given an encoded query string requests the path it
\* requests for the parsed mapping of that string, and parsing a mapping
\* leaves it unchanged.
C8_StringParamsAsMapping ==
    \A c \in CallIds :
        (calls[c].op \in {"list", "show", "showMany"})
        => /\ calls[c].params.type = "string"
              => sent[c][1].path = PathFor(c, QsParse(calls[c].params.val))
           /\ calls[c].params.type = "object"
              => _parse_params(calls[c].params) = calls[c].params

\* C9: once 'end' or 'error' has been handled the timer is no longer armed,
\* and the timeout handler never runs after either of them.
C9_NoTimeoutAfterCompletion ==
    \A c \in CallIds :
        /\ (\E i \in 1..Len(log[c]) : log[c][i] \in {"end", "error"})
           => timer[c] # "armed"
        /\ \A i, j \in 1..Len(log[c]) :
              (i < j /\ log[c][i] \in {"end", "error"}) => log[c][j] # "timeout"

\* A response that ended without any data: the timer was still armed when
\* the 'end' handler ran, and the handler cleared it.
C9_Witness ==
    \E c \in CallIds :
        /\ log[c] = <<"end">>
        /\ timer[c] = "cleared"
        /\ body[c].type = "null"

\* C10: the completion callback of a request is invoked at most once.
C10_CallbackAtMostOnce ==
    \A c \in CallIds : Len(cbCalls[c]) <= 1

====
